---- MODULE Spec2Model ----
(***************************************************************************)
(* Model of bindings/c/state_persistence.c: save_state writes four fields  *)
(* of an AppState as a four-line text file, load_state reads them back.    *)
(*                                                                         *)
(* Text is a sequence of one-character strings.  The file at `path` is     *)
(* (fileExists, file).  Each C statement that touches the file or the      *)
(* record is one action, so that two processes can interleave on the same  *)
(* path (SpecConc); Spec runs the calls of one single-threaded host.       *)
(*                                                                         *)
(* Not modelled: a failing strdup (malloc), sign characters in the numeric *)
(* text, NUL bytes in the file, and numerals above 2147483647 (the largest *)
(* integer TLC represents; the code's range is 0..4294967295).             *)
(***************************************************************************)
EXTENDS Integers, Sequences, FiniteSets, TLC

VARIABLES
    fileExists,   \* whether a file exists at path
    file,         \* its content
    writable,     \* environment: fopen(path, "w") can succeed
    capacity,     \* environment: bytes the device lets the file grow to
    s,            \* the AppState handed to save_state
    r,            \* the AppState handed to load_state
    pcS,          \* position of save_state
    wbuf,         \* stdio buffer of save_state's stream: text not yet on the device
    hS,           \* save_state's FILE handle
    retS,         \* save_state's return value (meaningful when pcS = "done")
    pcR,          \* position of load_state
    pos,          \* read offset of load_state's stream
    nameBuf,      \* char name[256]
    versionBuf,   \* char version[256]
    hR,           \* load_state's FILE handle
    retR,         \* load_state's return value (meaningful when pcR = "done")
    rPre,         \* history: r when load_state was called
    fileAtLoad,   \* history: (exists, content) when load_state was called
    loadAfterSave,\* history: load_state was called after a save_state returned 0
    overlap,      \* history: the current load_state ran while a save_state was running
    calls         \* number of calls made so far

vars == <<fileExists, file, writable, capacity, s, r, pcS, wbuf, hS, retS,
          pcR, pos, nameBuf, versionBuf, hR, retR, rPre, fileAtLoad,
          loadAfterSave, overlap, calls>>

envVars  == <<writable, capacity>>
saveVars == <<pcS, wbuf, hS, retS>>
loadVars == <<pcR, pos, nameBuf, versionBuf, hR, retR>>
histVars == <<rPre, fileAtLoad, loadAfterSave, overlap>>

----------------------------------------------------------------------------
(* Bounds and program constants *)

MaxCalls == 3

LineBuf == 256

----------------------------------------------------------------------------
(* Text helpers *)

NL == "\n"

Digits == <<"0", "1", "2", "3", "4", "5", "6", "7", "8", "9">>

Min(a, b) == IF a <= b THEN a ELSE b

Max(a, b) == IF a >= b THEN a ELSE b

Rep(c, n) == [i \in 1..n |-> c]

Drop(t, k) == SubSeq(t, k + 1, Len(t))

Take(t, k) == SubSeq(t, 1, Min(k, Len(t)))

IsDigit(c) == \E i \in 1..10 : Digits[i] = c

IsSpace(c) == c \in {" ", "\n", "\t", "\r"}

DigitVal(c) == (CHOOSE i \in 1..10 : Digits[i] = c) - 1

----------------------------------------------------------------------------
(* The C library calls the two functions make, as they act on text *)

\* printf's %u: the decimal numeral of n, no sign, no leading zero.
RECURSIVE FormatU(_)
FormatU(n) ==
    IF n < 10 THEN <<Digits[n + 1]>>
    ELSE FormatU(n \div 10) \o <<Digits[(n % 10) + 1]>>

\* Faulty variant of FormatRecord: pid and event_counter printed in the other order.
FormatRecordSwapped(st) ==
    st.name \o <<NL>> \o st.version \o <<NL>>
        \o FormatU(st.event_counter) \o <<NL>> \o FormatU(st.pid) \o <<NL>>

\* fprintf(f, "%s\n%s\n%u\n%u\n", name, version, pid, event_counter)
FormatRecord(st) ==
    st.name \o <<NL>> \o st.version \o <<NL>>
        \o FormatU(st.pid) \o <<NL>> \o FormatU(st.event_counter) \o <<NL>>

\* Number of characters fgets(buf, n, f) takes from the unread text `data`:
\* it stops after a newline, at end of file, or when n - 1 characters are read.
FgetsCount(data, n) ==
    LET lim == Min(n - 1, Len(data))
        nls == {i \in 1..lim : data[i] = NL}
    IN  IF nls = {} THEN lim ELSE CHOOSE i \in nls : \A j \in nls : i <= j

\* Faulty variant of Fgets: the whole line is taken, whatever the buffer's size.
FgetsWholeLine(data, n) ==
    LET k == FgetsCount(data, Len(data) + 1)
    IN  [ok |-> k > 0, buf |-> SubSeq(data, 1, k), used |-> k]

\* fgets(buf, n, f): ok is FALSE when fgets returns NULL (nothing left to read).
Fgets(data, n) ==
    LET k == FgetsCount(data, n)
    IN  [ok |-> k > 0, buf |-> SubSeq(data, 1, k), used |-> k]

\* strcspn(buf, "\n")
Strcspn(buf) ==
    LET nls == {i \in 1..Len(buf) : buf[i] = NL}
    IN  IF nls = {} THEN Len(buf)
        ELSE (CHOOSE i \in nls : \A j \in nls : i <= j) - 1

\* buf[strcspn(buf, "\n")] = '\0'; strdup(buf)
StripNewline(buf) == SubSeq(buf, 1, Strcspn(buf))

\* The white space a scanf directive skips.
SkipSpace(data) ==
    LET non == {i \in 1..Len(data) : ~IsSpace(data[i])}
    IN  IF non = {} THEN <<>>
        ELSE Drop(data, (CHOOSE i \in non : \A j \in non : i <= j) - 1)

\* Length of the run of digits data starts with.
DigitRun(data) ==
    LET non == {i \in 1..Len(data) : ~IsDigit(data[i])}
    IN  IF non = {} THEN Len(data)
        ELSE (CHOOSE i \in non : \A j \in non : i <= j) - 1

\* Value of a decimal numeral.
RECURSIVE Value(_)
Value(digs) ==
    IF digs = <<>> THEN 0
    ELSE Value(SubSeq(digs, 1, Len(digs) - 1)) * 10 + DigitVal(digs[Len(digs)])

\* scanf's %u: skip white space, then convert the longest run of digits.
ScanU(data) ==
    LET d == SkipSpace(data)
        n == DigitRun(d)
    IN  IF n = 0 THEN [ok |-> FALSE, val |-> 0, rest |-> d]
        ELSE [ok |-> TRUE, val |-> Value(SubSeq(d, 1, n)), rest |-> Drop(d, n)]

\* fscanf(f, "%u\n%u\n", &pid, &event_counter): n is the number of
\* conversions stored (an EOF return counts as 0: the code tests n != 2);
\* pid is stored when n >= 1, event_counter when n = 2.
Fscanf(data) ==
    LET a == ScanU(data)
        b == ScanU(a.rest)
    IN  IF ~a.ok THEN [n |-> 0, pid |-> 0, event_counter |-> 0]
        ELSE IF ~b.ok THEN [n |-> 1, pid |-> a.val, event_counter |-> 0]
        ELSE [n |-> 2, pid |-> a.val, event_counter |-> b.val]

\* The device accepts a chunk up to the file's capacity; the rest is lost
\* (ENOSPC).
DeviceWrite(content, chunk, cap) ==
    content \o Take(chunk, Max(cap - Len(content), 0))

\* FILE handle bookkeeping.
NoHandle == [open |-> FALSE, opened |-> 0, closed |-> 0]

Fopen(h) == [h EXCEPT !.open = TRUE, !.opened = @ + 1]

Fclose(h) == [h EXCEPT !.open = FALSE, !.closed = @ + 1]

----------------------------------------------------------------------------
(* AppState and the inputs of the model *)

\* An AppState with the four persisted fields given; the other fields are
\* opaque to this code and carry the tag `o`.
AppState(n, v, p, e, o) ==
    [name |-> n, version |-> v, data |-> <<o, "data">>, status |-> <<o, "status">>,
     pid |-> p, last_updated |-> <<o, "last_updated">>, stared_at |-> <<o, "stared_at">>,
     event_counter |-> e, error_log |-> <<o, "error_log">>,
     error_log_len |-> <<o, "error_log_len">>, config |-> <<o, "config">>,
     system_application |-> <<o, "system_application">>,
     stdout_entries |-> <<o, "stdout_entries">>, stdout_len |-> <<o, "stdout_len">>,
     stderr_entries |-> <<o, "stderr_entries">>, stderr_len |-> <<o, "stderr_len">>]

Agent == <<"a", "g", "e", "n", "t">>

V100 == <<"1", ".", "0", ".", "0">>

\* Records the host saves: short fields, empty fields, and name/version
\* lengths around the decoder's line buffer.
SaveStates ==
    { AppState(Agent, V100, 4242, 7, "s"),
      AppState(<<>>, <<>>, 0, 0, "s"),
      AppState(<<"a", " ", "b">>, <<"1", "2">>, 2147483647, 10, "s"),
      AppState(Rep("a", LineBuf - 2), <<"v">>, 1, 2, "s"),
      AppState(Rep("a", LineBuf - 1), <<"v">>, 1, 2, "s"),
      AppState(Rep("a", LineBuf - 1), <<>>, 1, 2, "s"),
      AppState(Rep("a", LineBuf), <<"3">>, 4, 5, "s"),
      AppState(<<"n">>, Rep("b", LineBuf - 2), 1, 2, "s"),
      AppState(<<"n">>, Rep("b", LineBuf - 1), 1, 2, "s"),
      AppState(<<"n">>, Rep("b", LineBuf), 1, 2, "s"),
      AppState(<<"n">>, Rep("b", LineBuf - 1) \o <<"1", "2">>, 4242, 7, "s") }

\* The record the host passes to load_state.
R0 == AppState(<<"o", "l", "d">>, <<"0">>, 11, 22, "r")

\* What may be at `path` before the first call.
InitFiles ==
    { [exists |-> FALSE, content |-> <<>>],
      [exists |-> TRUE, content |-> <<>>],
      [exists |-> TRUE, content |-> Agent],
      [exists |-> TRUE, content |-> Agent \o <<NL>>],
      [exists |-> TRUE, content |-> <<"a", NL, "b">>],
      [exists |-> TRUE, content |-> <<"a", NL, "b", NL>>],
      [exists |-> TRUE, content |-> <<"a", NL, "b", NL, "a", "b", "c", " ", "d", "e", "f", NL>>],
      [exists |-> TRUE, content |-> <<"a", NL, "b", NL, "1", "2", NL>>],
      [exists |-> TRUE, content |-> <<"a", NL, "b", NL, "1", "2", " ", "x", NL>>],
      [exists |-> TRUE, content |-> <<"a", NL, "b", NL, "1", "2", " ", "3", "4", NL>>],
      [exists |-> TRUE, content |-> <<"a", "\r", NL, "b", NL, NL, " ", "1", "2", "\t", NL, "3", "4">>],
      [exists |-> TRUE, content |-> Agent \o <<NL>> \o V100 \o <<NL, "4", "2", "4", "2", NL, "7", NL>>],
      [exists |-> TRUE, content |-> Rep("a", LineBuf - 1)],
      [exists |-> TRUE, content |-> Rep("a", LineBuf + 3) \o <<NL, "b", NL, "1", NL, "2", NL>>],
      [exists |-> TRUE, content |-> Rep("a", LineBuf) \o <<NL, "8", NL, "9", NL, "2", NL>>],
      [exists |-> TRUE, content |-> Rep("a", LineBuf - 1) \o Rep("b", LineBuf - 1) \o <<" ", "1", " ", "2", NL>>] }

\* Bytes the device lets the file hold: none, a few, enough for any record.
Capacities == {0, 7, 4 * LineBuf}

\* The concurrent scenario: the file holds OldState, a writer saves a record
\* that differs from it in every persisted field.
OldState == AppState(<<"o", "n", "e">>, <<"1">>, 5, 6, "s")

ConcStates ==
    { AppState(<<"t", "w", "o">>, <<"2">>, 7, 8, "s"),
      AppState(Agent, V100, 4242, 7, "s") }

----------------------------------------------------------------------------
(* Initial states *)

Quiet ==
    /\ pcS = "idle" /\ wbuf = <<>> /\ hS = NoHandle /\ retS = -1
    /\ pcR = "idle" /\ pos = 0 /\ nameBuf = <<>> /\ versionBuf = <<>>
    /\ hR = NoHandle /\ retR = -1
    /\ r = R0 /\ rPre = R0
    /\ loadAfterSave = FALSE /\ overlap = FALSE /\ calls = 0

Init ==
    /\ \E f \in InitFiles :
          /\ fileExists = f.exists
          /\ file = f.content
          /\ fileAtLoad = f
    /\ writable \in BOOLEAN
    /\ capacity \in Capacities
    /\ s \in SaveStates
    /\ Quiet

InitConc ==
    /\ fileExists = TRUE
    /\ file = FormatRecord(OldState)
    /\ fileAtLoad = [exists |-> TRUE, content |-> FormatRecord(OldState)]
    /\ writable = TRUE
    /\ capacity = 4 * LineBuf
    /\ s \in ConcStates
    /\ Quiet

----------------------------------------------------------------------------
(* save_state *)

SaveRunning == pcS \notin {"idle", "done"}

LoadRunning == pcR \notin {"idle", "done"}

\* The host calls save_state(&s, path).
StartSave ==
    /\ ~SaveRunning
    /\ calls < MaxCalls
    /\ calls' = calls + 1
    /\ pcS' = "open"
    /\ wbuf' = <<>>
    /\ hS' = NoHandle
    /\ retS' = -1
    /\ overlap' = (overlap \/ LoadRunning)
    /\ UNCHANGED <<fileExists, file, envVars, s, r, loadVars, rPre, fileAtLoad,
                   loadAfterSave>>

\* FILE *f = fopen(path, "w"); if (!f) return -1;
SaveOpen ==
    /\ pcS = "open"
    /\ IF writable
       THEN /\ fileExists' = TRUE
            /\ file' = <<>>
            /\ hS' = Fopen(hS)
            /\ pcS' = "printf"
            /\ retS' = retS
       ELSE /\ pcS' = "done"
            /\ retS' = -1
            /\ UNCHANGED <<fileExists, file, hS>>
    /\ UNCHANGED <<envVars, s, r, wbuf, loadVars, histVars, calls>>

\* fprintf(f, "%s\n%s\n%u\n%u\n", ...): the text goes to the stream's buffer;
\* the return value is not looked at.
SavePrintf ==
    /\ pcS = "printf"
    /\ wbuf' = FormatRecord(s)
    /\ pcS' = "close"
    /\ UNCHANGED <<fileExists, file, envVars, s, r, hS, retS, loadVars, histVars, calls>>

\* Length of the first line of t, its newline included.
FirstLine(t) == FgetsCount(t, Len(t) + 1)

\* The stream may hand buffered text to the device before fclose (when its
\* buffer fills); here line by line.  A failed write is not reported.
SaveFlush ==
    /\ pcS = "close"
    /\ wbuf # <<>>
    /\ file' = DeviceWrite(file, Take(wbuf, FirstLine(wbuf)), capacity)
    /\ wbuf' = Drop(wbuf, FirstLine(wbuf))
    /\ UNCHANGED <<fileExists, envVars, s, r, pcS, hS, retS, loadVars, histVars, calls>>

\* fclose(f); return 0;  fclose writes what is buffered and releases the
\* handle whether or not the write succeeds; its return value is not
\* looked at.
SaveClose ==
    /\ pcS = "close"
    /\ file' = DeviceWrite(file, wbuf, capacity)
    /\ wbuf' = <<>>
    /\ hS' = Fclose(hS)
    /\ retS' = 0
    /\ pcS' = "done"
    /\ UNCHANGED <<fileExists, envVars, s, r, loadVars, histVars, calls>>

----------------------------------------------------------------------------
(* load_state *)

\* The text of the file from the stream's offset on.  Every fgets and
\* fscanf reads the file as it is at that moment: how much a stream reads
\* ahead is up to the C library, and a truncated file reads as ended.
Unread == Drop(file, pos)

\* Faulty variant of StoreStrings: the version is stored in the wrong field.
StoreStringsWrongField(st, n, v) == [st EXCEPT !.name = n, !.data = v]

\* state->name = strdup(name); state->version = strdup(version);
StoreStrings(st, n, v) == [st EXCEPT !.name = n, !.version = v]

\* What fscanf stores through &state->pid and &state->event_counter.
StoreNumbers(st, sc) ==
    [st EXCEPT !.pid = IF sc.n >= 1 THEN sc.pid ELSE @,
               !.event_counter = IF sc.n >= 2 THEN sc.event_counter ELSE @]

\* The host calls load_state(&r, path).
StartLoad ==
    /\ ~LoadRunning
    /\ calls < MaxCalls
    /\ calls' = calls + 1
    /\ pcR' = "open"
    /\ pos' = 0
    /\ nameBuf' = <<>>
    /\ versionBuf' = <<>>
    /\ hR' = NoHandle
    /\ retR' = -1
    /\ rPre' = r
    /\ fileAtLoad' = [exists |-> fileExists, content |-> file]
    /\ loadAfterSave' = (pcS = "done" /\ retS = 0)
    /\ overlap' = SaveRunning
    /\ UNCHANGED <<fileExists, file, envVars, s, r, saveVars>>

\* Faulty variant of LoadOpen: the numeric fields are cleared before the file is
\* opened.
LoadOpenClears ==
    /\ pcR = "open"
    /\ r' = [r EXCEPT !.pid = 0, !.event_counter = 0]
    /\ IF fileExists
       THEN /\ hR' = Fopen(hR)
            /\ pcR' = "name"
            /\ retR' = retR
       ELSE /\ pcR' = "done"
            /\ retR' = -1
            /\ hR' = hR
    /\ UNCHANGED <<fileExists, file, envVars, s, saveVars, pos, nameBuf,
                   versionBuf, histVars, calls>>

\* FILE *f = fopen(path, "r"); if (!f) return -1;
LoadOpen ==
    /\ pcR = "open"
    /\ IF fileExists
       THEN /\ hR' = Fopen(hR)
            /\ pcR' = "name"
            /\ retR' = retR
       ELSE /\ pcR' = "done"
            /\ retR' = -1
            /\ hR' = hR
    /\ UNCHANGED <<fileExists, file, envVars, s, r, saveVars, pos, nameBuf,
                   versionBuf, histVars, calls>>

\* if (!fgets(name, sizeof(name), f) || ...) { fclose(f); return -1; }
LoadName ==
    /\ pcR = "name"
    /\ LET g == Fgets(Unread, LineBuf)
       IN  IF g.ok
           THEN /\ nameBuf' = g.buf
                /\ pos' = pos + g.used
                /\ pcR' = "version"
                /\ UNCHANGED <<hR, retR>>
           ELSE /\ hR' = Fclose(hR)
                /\ retR' = -1
                /\ pcR' = "done"
                /\ UNCHANGED <<nameBuf, pos>>
    /\ UNCHANGED <<fileExists, file, envVars, s, r, saveVars, versionBuf, histVars, calls>>

\* if (... || !fgets(version, sizeof(version), f)) { fclose(f); return -1; }
LoadVersion ==
    /\ pcR = "version"
    /\ LET g == Fgets(Unread, LineBuf)
       IN  IF g.ok
           THEN /\ versionBuf' = g.buf
                /\ pos' = pos + g.used
                /\ pcR' = "store"
                /\ UNCHANGED <<hR, retR>>
           ELSE /\ hR' = Fclose(hR)
                /\ retR' = -1
                /\ pcR' = "done"
                /\ UNCHANGED <<versionBuf, pos>>
    /\ UNCHANGED <<fileExists, file, envVars, s, r, saveVars, nameBuf, histVars, calls>>

\* name[strcspn(name, "\n")] = '\0'; version[...] = '\0';
\* state->name = strdup(name); state->version = strdup(version);
LoadStore ==
    /\ pcR = "store"
    /\ r' = StoreStrings(r, StripNewline(nameBuf), StripNewline(versionBuf))
    /\ pcR' = "scan"
    /\ UNCHANGED <<fileExists, file, envVars, s, saveVars, pos, nameBuf, versionBuf,
                   hR, retR, histVars, calls>>

\* Faulty variant of LoadScan: the failure path returns without fclose.
LoadScanLeak ==
    /\ pcR = "scan"
    /\ LET sc == Fscanf(Unread)
       IN  /\ r' = StoreNumbers(r, sc)
           /\ retR' = IF sc.n # 2 THEN -1 ELSE 0
           /\ hR' = IF sc.n # 2 THEN hR ELSE Fclose(hR)
    /\ pcR' = "done"
    /\ UNCHANGED <<fileExists, file, envVars, s, saveVars, pos, nameBuf, versionBuf,
                   histVars, calls>>

\* if (fscanf(f, "%u\n%u\n", &state->pid, &state->event_counter) != 2)
\*     { fclose(f); return -1; }
\* fclose(f); return 0;
LoadScan ==
    /\ pcR = "scan"
    /\ LET sc == Fscanf(Unread)
       IN  /\ r' = StoreNumbers(r, sc)
           /\ retR' = IF sc.n # 2 THEN -1 ELSE 0
    /\ hR' = Fclose(hR)
    /\ pcR' = "done"
    /\ UNCHANGED <<fileExists, file, envVars, s, saveVars, pos, nameBuf, versionBuf,
                   histVars, calls>>

----------------------------------------------------------------------------
(* Specifications *)

\* One single-threaded host: a call starts only when no call is running.
CallSave == ~LoadRunning /\ StartSave

CallLoad == ~SaveRunning /\ StartLoad

Next ==
    \/ CallSave
    \/ SaveOpen
    \/ SavePrintf
    \/ SaveFlush
    \/ SaveClose
    \/ CallLoad
    \/ LoadOpen
    \/ LoadName
    \/ LoadVersion
    \/ LoadStore
    \/ LoadScan

Spec == Init /\ [][Next]_vars

\* Two processes on the same path: a writer and a reader, freely interleaved.
NextConc ==
    \/ StartSave
    \/ SaveOpen
    \/ SavePrintf
    \/ SaveFlush
    \/ SaveClose
    \/ StartLoad
    \/ LoadOpen
    \/ LoadName
    \/ LoadVersion
    \/ LoadStore
    \/ LoadScan

SpecConc == InitConc /\ [][NextConc]_vars

----------------------------------------------------------------------------
(* Vocabulary of the properties: files read line by line, independently of *)
(* the library operators above                                             *)

Same4(a, b) ==
    /\ a.name = b.name
    /\ a.version = b.version
    /\ a.pid = b.pid
    /\ a.event_counter = b.event_counter

\* The fields of an AppState that are not persisted.
Others(st) ==
    <<st.data, st.status, st.last_updated, st.stared_at, st.error_log,
      st.error_log_len, st.config, st.system_application, st.stdout_entries,
      st.stdout_len, st.stderr_entries, st.stderr_len>>

Newlines(t) == {i \in 1..Len(t) : t[i] = NL}

\* Position of the k-th newline of t; 0 for k = 0, Len(t) + 1 past the last.
NthNewline(t, k) ==
    IF k = 0 THEN 0
    ELSE IF k > Cardinality(Newlines(t)) THEN Len(t) + 1
    ELSE CHOOSE i \in Newlines(t) : Cardinality({j \in Newlines(t) : j <= i}) = k

\* The k-th line of t, without its newline.
LineN(t, k) == SubSeq(t, NthNewline(t, k - 1) + 1, NthNewline(t, k) - 1)

\* The text after the k-th newline.
AfterLine(t, k) == Drop(t, Min(NthNewline(t, k), Len(t)))

IsNumeral(d) ==
    /\ d # <<>>
    /\ \A i \in 1..Len(d) : IsDigit(d[i])
    /\ Len(d) > 1 => d[1] # "0"

\* n begins with two unsigned integers: optional white space, digits, white
\* space, a digit.
TwoUnsigned(n) ==
    \E a \in 1..Len(n) : \E c \in (a + 2)..Len(n) :
        /\ \A i \in 1..(a - 1) : IsSpace(n[i])
        /\ IsDigit(n[a])
        /\ IsDigit(n[c])
        /\ IsSpace(n[c - 1])
        /\ \A i \in a..(c - 1) : IsDigit(n[i]) \/ IsSpace(n[i])
        /\ \A i \in a..(c - 2) : IsSpace(n[i]) => IsSpace(n[i + 1])

LoadDone == pcR = "done"

SaveDone == pcS = "done"

----------------------------------------------------------------------------
(* Properties *)

\* C1: round trip.  When load_state is called after save_state(s) returned
\* success, and the file holds all that save_state printed, load_state
\* returns success and leaves name, version, pid and event_counter of r
\* equal to those of s, whatever the lengths of name and version.
C1_RoundTrip ==
    (LoadDone /\ loadAfterSave /\ fileAtLoad.content = FormatRecord(s))
        => (retR = 0 /\ Same4(r, s))

\* The round trip for the records whose name and version fit the line
\* buffers with their newline (not a claim of its own: it shows what C1
\* diverges from).
RoundTripWithinBuffer ==
    (/\ LoadDone /\ loadAfterSave /\ fileAtLoad.content = FormatRecord(s)
     /\ Len(s.name) < LineBuf - 1 /\ Len(s.version) < LineBuf - 1)
        => (retR = 0 /\ Same4(r, s))

\* C2: after save_state returned success the file exists and holds exactly
\* four lines: name, version, the decimal numeral of pid, the decimal
\* numeral of event_counter, each ended by a newline, and nothing else.
C2_ExactContent ==
    (SaveDone /\ retS = 0)
        => /\ fileExists
           /\ Cardinality(Newlines(file)) = 4
           /\ AfterLine(file, 4) = <<>>
           /\ LineN(file, 1) = s.name
           /\ LineN(file, 2) = s.version
           /\ IsNumeral(LineN(file, 3)) /\ Value(LineN(file, 3)) = s.pid
           /\ IsNumeral(LineN(file, 4)) /\ Value(LineN(file, 4)) = s.event_counter
           /\ (Same4(s, AppState(Agent, V100, 4242, 7, "s"))
                  => file = <<"a", "g", "e", "n", "t", NL, "1", ".", "0", ".", "0", NL,
                              "4", "2", "4", "2", NL, "7", NL>>)

\* The same content, for the saves the device had room for (not a claim of
\* its own: it shows what C2 and C6 diverge from).
SaveWritesRecordWhenRoom ==
    (SaveDone /\ retS = 0 /\ capacity >= Len(FormatRecord(s)))
        => /\ fileExists
           /\ Cardinality(Newlines(file)) = 4
           /\ AfterLine(file, 4) = <<>>
           /\ LineN(file, 1) = s.name
           /\ LineN(file, 2) = s.version
           /\ IsNumeral(LineN(file, 3)) /\ Value(LineN(file, 3)) = s.pid
           /\ IsNumeral(LineN(file, 4)) /\ Value(LineN(file, 4)) = s.event_counter

\* C3: when load_state returns failure, name, version, pid and
\* event_counter of the record are what they were before the call.
C3_NoPartialMutation ==
    (LoadDone /\ retR = -1) => Same4(r, rPre)

\* C4: load_state on a path where no file exists returns failure and leaves
\* every field of the record unchanged.
C4_MissingFile ==
    (LoadDone /\ ~fileAtLoad.exists) => (retR = -1 /\ r = rPre)

C4_Witness ==
    LoadDone /\ ~fileAtLoad.exists /\ retR = -1 /\ hR.opened = 0

\* C5: load_state returns success only for a file that has a name line and
\* a version line followed by two unsigned integers; a file with no line,
\* one line, no numeric part, a non-numeric numeric part or a single
\* integer makes it return failure.
C5_FailsUnlessAllStages ==
    (LoadDone /\ retR = 0)
        => /\ fileAtLoad.exists
           /\ Cardinality(Newlines(fileAtLoad.content)) >= 2
           /\ TwoUnsigned(AfterLine(fileAtLoad.content, 2))

\* C6: save_state returns success exactly when the file holds the complete
\* four-line record and the handle is closed; any other outcome returns
\* failure.
C6_FailureReported ==
    SaveDone
        => /\ (~fileExists \/ file # FormatRecord(s)) => retS = -1
           /\ retS = 0 => ~hS.open

\* C7: when save_state or load_state is not running, the handle it opened
\* is not open and was closed once; a handle is never closed more often
\* than it was opened, and a call opens at most one.
C7_HandlesReleased ==
    /\ ~SaveRunning => (~hS.open /\ hS.closed = hS.opened)
    /\ ~LoadRunning => (~hR.open /\ hR.closed = hR.opened)
    /\ hS.closed <= hS.opened /\ hS.opened <= 1
    /\ hR.closed <= hR.opened /\ hR.opened <= 1
    /\ hS.open <=> (hS.opened = 1 /\ hS.closed = 0)
    /\ hR.open <=> (hR.opened = 1 /\ hR.closed = 0)

C7_Witness ==
    /\ LoadDone /\ retR = -1 /\ nameBuf # <<>> /\ versionBuf # <<>>
    /\ hR.opened = 1 /\ hR.closed = 1
    /\ SaveDone /\ hS.opened = 1 /\ hS.closed = 1

\* C8: at every point of load_state, successful or failed, the fields of
\* the record other than name, version, pid and event_counter have the
\* values they had when it was called; no step changes the record given to
\* save_state.
C8_Frame ==
    /\ [](Others(r) = Others(rPre))
    /\ [][s' = s]_vars

C8_Witness ==
    /\ LoadDone /\ retR = 0
    /\ r.name # rPre.name /\ r.version # rPre.version
    /\ r.pid # rPre.pid /\ r.event_counter # rPre.event_counter
    /\ SaveDone

C10_WholeWhenNotInterleaved ==
    (LoadDone /\ ~overlap)
        => (retR = 0 /\ (Same4(r, OldState) \/ Same4(r, s)))

\* A load_state that read the file both before the writer's fopen and
\* between that fopen and the writer's fclose returned success with a record
\* that is neither the old one nor the one being saved.
C10_Witness ==
    /\ LoadDone /\ overlap /\ retR = 0
    /\ pcS = "close"
    /\ ~Same4(r, OldState) /\ ~Same4(r, s)

\* A load_state interleaved with a save_state failed although the file held
\* a complete record before and after the save.
C10_FailureReachable ==
    LoadDone /\ overlap /\ retR = -1 /\ SaveDone /\ file = FormatRecord(s)

====
